---- MODULE Spec2Model ----
(***************************************************************************)
(* Model of the daemonized Bluetooth GPS tracker (src/testsend7.py):       *)
(* the daemon processes started by `start`, the SIGTERM/SIGINT handler     *)
(* that may pre-empt the main loop at any step, and the `stop` and         *)
(* `status` commands, all sharing one PID file.                            *)
(*                                                                         *)
(* A daemon is a small program counter machine.  pc[d] is the statement    *)
(* the process is at (or blocked in); stack[d] holds the statements that   *)
(* signal handlers have interrupted, innermost last.  An exception raised  *)
(* by a handler (SystemExit from sys.exit, FileNotFoundError from          *)
(* os.remove) propagates into the interrupted statement and is caught or   *)
(* not by the try blocks that enclose that statement in the source.        *)
(***************************************************************************)
EXTENDS Integers, Sequences, FiniteSets, TLC

\* Process ids of the daemons that `start` can create (one per start).
Pids == {1, 2}

\* The daemon whose life Spec follows: the first one started.
FirstPid == CHOOSE d \in Pids : \A e \in Pids : d <= e

\* Bounds of the model.
MaxSignals == 1      \* signals sent by something other than `stop`
MaxPolls == 2        \* reports the location source delivers to one daemon

None == "None"
NoFile == 0

\* os.geteuid() of root, and the effective uids a caller can have.
Root == 0
Euids == {Root, 1000}

\* No process: no command is in the foreground, daemon d is not started.
NoUid == -1

VARIABLES
    pidFile,       \* content of /var/run/gps_tracker.pid: NoFile or a pid
    pc,            \* pc[d]: statement daemon d is at
    stack,         \* stack[d]: statements interrupted by running handlers
    running,       \* self.running
    server_sock,   \* self.server_sock: None, "open" or "closed"
    client_sock,   \* self.client_sock: None, "open" or "closed"
    gps_session,   \* self.gps_session: None or "gps"
    gps_data,      \* local gps_data of send_gps_data: None or a dict
    handlers,      \* the SIGTERM/SIGINT handlers are installed
    sigPending,    \* a termination signal is pending for the process
    sessions,      \* accepted client sockets of d not yet closed
    sent,          \* records written to the client in the current session
    polls,         \* reports consumed from the location source so far
    observed,      \* signal_handler has run in d
    loopSig,       \* ... for a signal that interrupted the serving loop
    sendFailed,    \* a send on the current client socket has failed
    fixes,         \* valid fixes get_gps_data returned in the current session
    discoverable,  \* the adapter has been put in piscan mode
    sdp,           \* the SP service record is registered
    stopPc, stopPid,               \* the stop command: statement, pid read
    stopHit,                       \* the process it signalled was Running
    statPc, statPid,               \* the status command, likewise
    sigCount,      \* signals sent so far by the environment
    euid,          \* euid[d]: effective uid of the process of daemon d
    cmdEuid        \* effective uid of the command in the foreground

dvars == <<pc, stack, running, server_sock, client_sock, gps_session,
           gps_data, handlers, sigPending, sessions, sent, polls, observed,
           loopSig, sendFailed, fixes>>
stopVars == <<stopPc, stopPid, stopHit>>
statVars == <<statPc, statPid>>
uidVars == <<euid, cmdEuid>>
vars == <<pidFile, dvars, discoverable, sdp, stopVars, statVars, sigCount,
          uidVars>>

----------------------------------------------------------------------------
\* Process liveness, as os.kill(pid, 0) sees it.
\* At "d_fork" the process that will carry pid d has not been forked yet.
Alive(d) == pc[d] \notin {"unborn", "d_fork", "exited"}

\* Statements of signal_handler and cleanup.
HandlerPcs == {"h_enter", "c_sdp", "c_client", "c_server", "c_exists",
               "c_remove", "h_exit"}

InHandler(d) == pc[d] \in HandlerPcs

\* Statements of the serving loop: run lines 225-232 and send_gps_data.
LoopPcs == {"loop_test", "accept", "send_test", "get_gps", "check", "send",
            "sleep2", "sleep_err", "close_client", "sleep1"}

\* Python truthiness of a socket attribute: None is false, a socket object
\* (open or closed) is true.
Truthy(s) == s # None

\* Closing a socket object: idempotent, never raises.
Close(s) == IF s = None THEN None ELSE "closed"

\* The RFCOMM channel is held by a live process with a listening socket.
ChannelInUse == \E e \in Pids : Alive(e) /\ server_sock[e] = "open"

Init ==
    /\ pidFile = NoFile
    /\ pc = [d \in Pids |-> "unborn"]
    /\ stack = [d \in Pids |-> <<>>]
    /\ running = [d \in Pids |-> FALSE]
    /\ server_sock = [d \in Pids |-> None]
    /\ client_sock = [d \in Pids |-> None]
    /\ gps_session = [d \in Pids |-> None]
    /\ gps_data = [d \in Pids |-> [type |-> "None"]]
    /\ handlers = [d \in Pids |-> FALSE]
    /\ sigPending = [d \in Pids |-> FALSE]
    /\ sessions = [d \in Pids |-> 0]
    /\ sent = [d \in Pids |-> <<>>]
    /\ polls = [d \in Pids |-> 0]
    /\ observed = [d \in Pids |-> FALSE]
    /\ loopSig = [d \in Pids |-> FALSE]
    /\ sendFailed = [d \in Pids |-> FALSE]
    /\ fixes = [d \in Pids |-> <<>>]
    /\ discoverable = FALSE
    /\ sdp = FALSE
    /\ stopPc = "idle" /\ stopPid = 0 /\ stopHit = FALSE
    /\ statPc = "idle" /\ statPid = 0
    /\ sigCount = 0
    /\ euid = [d \in Pids |-> NoUid]
    /\ cmdEuid = NoUid

----------------------------------------------------------------------------
(* Telemetry: what gps_session.next() can deliver and what get_gps_data    *)
(* and json.dumps make of it.                                              *)

\* hasattr(report, 'lat') is false: the attribute is absent.
Absent == 0

\* get_gps_data's "no fix" result (Python None).
NoData == [type |-> "None"]

\* Latitudes a report can carry: two positions, enough to tell records
\* apart and to see their order.
Lats == {1, 2}

\* Reports of the location source: a class and optional lat / lon attributes.
Reports == [class : {"TPV", "SKY"},
            lat : {Absent} \cup Lats,
            lon : {Absent, 1}]

\* get_gps_data lines 177-186: a dict for a TPV report that has lat and lon,
\* None for anything else.
GpsData(report) ==
    IF report.class = "TPV" /\ report.lat # Absent /\ report.lon # Absent
    THEN [type |-> "gps", latitude |-> report.lat, longitude |-> report.lon]
    ELSE NoData

\* json.dumps(gps_data) + '\n': one line, terminated by a newline
\* (json.dumps(None) is "null").
Serialize(g) ==
    IF g = NoData THEN <<"null", "\n">>
    ELSE <<g.type, g.latitude, g.longitude, "\n">>

----------------------------------------------------------------------------
(* Exceptions raised inside a signal handler.                              *)

\* The statement at which execution resumes when the statement p was
\* interrupted by a handler that raised an exception of the given kind
\* ("SystemExit" or "Exception"), or "none" when no try block around p
\* catches it.  Bare `except:` clauses (lines 187, 203, 241, 247, 253) catch
\* both kinds; `except Exception` clauses catch only the second.
CatchSite(p, kind) ==
    CASE p = "get_gps"   -> "check"          \* line 187: pass, return None
      [] p = "send"      -> "close_client"   \* line 203: log, break
      [] p = "c_sdp"     -> "c_client"       \* line 241
      [] p = "c_client"  -> "c_server"       \* line 247
      [] p = "c_server"  -> "c_exists"       \* line 253
      [] p = "make_disc"    /\ kind = "Exception" -> "setup_bt"     \* 112
      [] p = "setup_bt"     /\ kind = "Exception" -> "run_ret"      \* 147
      [] p = "register_sdp" /\ kind = "Exception" -> "setup_gps"    \* 131
      [] p = "setup_gps"    /\ kind = "Exception" -> "set_running"  \* 157
      [] p = "accept"       /\ kind = "Exception" -> "sleep1"       \* 169
      [] p \in {"check", "sleep2"} /\ kind = "Exception" -> "sleep_err" \* 208
      [] OTHER -> "none"

\* Propagation of an exception out of the innermost handler: frame by frame
\* through the interrupted statements until one catches it; uncaught at the
\* bottom, the interpreter exits.
RECURSIVE Unwind(_, _)
Unwind(st, kind) ==
    IF st = <<>>
    THEN [pc |-> "exited", stack |-> <<>>, caught |-> "none"]
    ELSE LET p == st[Len(st)]
             rest == SubSeq(st, 1, Len(st) - 1)
             c == CatchSite(p, kind)
         IN IF c # "none"
            THEN [pc |-> c, stack |-> rest, caught |-> p]
            ELSE Unwind(rest, kind)

\* The handler running in d raises an exception of the given kind.
Raise(d, kind) ==
    LET u == Unwind(stack[d], kind) IN
    /\ pc' = [pc EXCEPT ![d] = u.pc]
    /\ stack' = [stack EXCEPT ![d] = u.stack]
    /\ gps_data' = IF u.caught = "get_gps"
                   THEN [gps_data EXCEPT ![d] = NoData]
                   ELSE gps_data

Goto(d, p) == pc' = [pc EXCEPT ![d] = p]

\* Spec follows one daemon from its start to its exit: only the first
\* daemon is started (a start beside a live daemon is a caller error).
StartAllowed(d) == d = FirstPid

\* Effect of closing the client socket on the count of open sessions.
AfterClose(d) ==
    IF client_sock[d] = "open" THEN sessions[d] - 1 ELSE sessions[d]

----------------------------------------------------------------------------
(* The command line: __main__, lines 307-336.                              *)

Commands == {"start", "stop", "status", "restart"}

\* sys.argv[1], or NoArg when the command is invoked without an argument.
NoArg == ""
Argvs == Commands \cup {NoArg, "STOP", "reload"}

\* str.lower on the arguments of Argvs.
Lower(arg) == IF arg = "STOP" THEN "stop" ELSE arg

\* Mutant of Main: the test of os.geteuid() is left out.
MainNoEuidTest(e, arg) ==
    IF arg = NoArg THEN [run |-> "none", exit |-> 1]
    ELSE IF Lower(arg) \in Commands THEN [run |-> Lower(arg), exit |-> 0]
    ELSE [run |-> "none", exit |-> 1]

\* What __main__ does for a caller with effective uid e and argument arg:
\* the command function it dispatches to, or none and the exit status 1
\* (usage, lines 308-314; not root, 316-318; unknown command, 334-336).
Main(e, arg) ==
    IF arg = NoArg THEN [run |-> "none", exit |-> 1]
    ELSE IF e # Root THEN [run |-> "none", exit |-> 1]
    ELSE IF Lower(arg) \in Commands THEN [run |-> Lower(arg), exit |-> 0]
    ELSE [run |-> "none", exit |-> 1]

\* Callers whose invocation reaches start_daemon (start, and restart after
\* its stop_daemon), stop_daemon (stop and restart) and status_daemon.
Starts == {e \in Euids : \E arg \in Argvs :
              Main(e, arg).run \in {"start", "restart"}}
Stops == {e \in Euids : \E arg \in Argvs :
              Main(e, arg).run \in {"stop", "restart"}}
Statuses == {e \in Euids : \E arg \in Argvs : Main(e, arg).run = "status"}

----------------------------------------------------------------------------
(* start: start_daemon = daemonize() then run().                           *)

\* The start command creates the next daemon process.
Start(d) ==
    /\ pc[d] = "unborn"
    /\ StartAllowed(d)
    /\ Goto(d, "d_fork")
    /\ \E e \in Starts : euid' = [euid EXCEPT ![d] = e]
    /\ UNCHANGED <<pidFile, stack, running, server_sock, client_sock,
                   gps_session, gps_data, handlers, sigPending, sessions,
                   sent, polls, observed, loopSig, sendFailed, fixes,
                   discoverable, sdp, stopVars, statVars, cmdEuid, sigCount>>

\* daemonize lines 43-75: the two forks; a failed fork exits with status 1.
DFork(d) ==
    /\ pc[d] = "d_fork"
    /\ \E ok \in BOOLEAN : Goto(d, IF ok THEN "d_pid" ELSE "exited")
    /\ UNCHANGED <<pidFile, stack, running, server_sock, client_sock,
                   gps_session, gps_data, handlers, sigPending, sessions,
                   sent, polls, observed, loopSig, sendFailed, fixes,
                   discoverable, sdp, stopVars, statVars, uidVars, sigCount>>

\* daemonize lines 78-80: write the PID file.
DWritePid(d) ==
    /\ pc[d] = "d_pid"
    /\ pidFile' = d
    /\ Goto(d, "d_sig")
    /\ UNCHANGED <<stack, running, server_sock, client_sock, gps_session,
                   gps_data, handlers, sigPending, sessions, sent, polls,
                   observed, loopSig, sendFailed, fixes, discoverable, sdp,
                   stopVars, statVars, uidVars, sigCount>>

\* daemonize lines 83-86: install the SIGTERM and SIGINT handlers.
DInstall(d) ==
    /\ pc[d] = "d_sig"
    /\ handlers' = [handlers EXCEPT ![d] = TRUE]
    /\ Goto(d, "make_disc")
    /\ UNCHANGED <<pidFile, stack, running, server_sock, client_sock,
                   gps_session, gps_data, sigPending, sessions, sent, polls,
                   observed, loopSig, sendFailed, fixes, discoverable, sdp,
                   stopVars, statVars, uidVars, sigCount>>

\* make_discoverable (run line 214): piscan may or may not take effect; the
\* returned boolean is ignored by run.
MakeDiscoverable(d) ==
    /\ pc[d] = "make_disc"
    /\ \E piscan \in BOOLEAN : discoverable' = (discoverable \/ piscan)
    /\ Goto(d, "setup_bt")
    /\ UNCHANGED <<pidFile, stack, running, server_sock, client_sock,
                   gps_session, gps_data, handlers, sigPending, sessions,
                   sent, polls, observed, loopSig, sendFailed, fixes, sdp,
                   stopVars, statVars, uidVars, sigCount>>

\* Mutant of SetupBluetooth: run ignores the result (no test at line 216).
SetupBluetoothUnchecked(d) ==
    /\ pc[d] = "setup_bt"
    /\ \/ /\ ~ChannelInUse
          /\ server_sock' = [server_sock EXCEPT ![d] = "open"]
       \/ \E s \in {None, "unbound"} :
             server_sock' = [server_sock EXCEPT ![d] = s]
    /\ Goto(d, "register_sdp")
    /\ UNCHANGED <<pidFile, stack, running, client_sock, gps_session,
                   gps_data, handlers, sigPending, sessions, sent, polls,
                   observed, loopSig, sendFailed, fixes, discoverable, sdp,
                   stopVars, statVars, uidVars, sigCount>>

\* setup_bluetooth (run line 216): socket, bind, listen.  bind fails when the
\* channel is taken; any of the three calls may fail (no radio).
SetupBluetooth(d) ==
    /\ pc[d] = "setup_bt"
    /\ \/ /\ ~ChannelInUse
          /\ server_sock' = [server_sock EXCEPT ![d] = "open"]
          /\ Goto(d, "register_sdp")
       \/ /\ \E s \in {None, "unbound"} :
                server_sock' = [server_sock EXCEPT ![d] = s]
          /\ Goto(d, "run_ret")
    /\ UNCHANGED <<pidFile, stack, running, client_sock, gps_session,
                   gps_data, handlers, sigPending, sessions, sent, polls,
                   observed, loopSig, sendFailed, fixes, discoverable, sdp,
                   stopVars, statVars, uidVars, sigCount>>

\* run lines 217-218: log the failure and return; start_daemon returns and
\* the process ends.
RunReturn(d) ==
    /\ pc[d] = "run_ret"
    /\ Goto(d, "exited")
    /\ UNCHANGED <<pidFile, stack, running, server_sock, client_sock,
                   gps_session, gps_data, handlers, sigPending, sessions,
                   sent, polls, observed, loopSig, sendFailed, fixes,
                   discoverable, sdp, stopVars, statVars, uidVars, sigCount>>

\* Mutant of RegisterSdp: run gives up when the registration fails.
RegisterSdpFatal(d) ==
    /\ pc[d] = "register_sdp"
    /\ \E ok \in BOOLEAN :
          /\ sdp' = ok
          /\ Goto(d, IF ok THEN "setup_gps" ELSE "run_ret")
    /\ UNCHANGED <<pidFile, stack, running, server_sock, client_sock,
                   gps_session, gps_data, handlers, sigPending, sessions,
                   sent, polls, observed, loopSig, sendFailed, fixes,
                   discoverable, stopVars, statVars, uidVars, sigCount>>

\* register_sdp_service (run line 220): delete the old record, add a new one.
RegisterSdp(d) ==
    /\ pc[d] = "register_sdp"
    /\ \E ok \in BOOLEAN : sdp' = ok
    /\ Goto(d, "setup_gps")
    /\ UNCHANGED <<pidFile, stack, running, server_sock, client_sock,
                   gps_session, gps_data, handlers, sigPending, sessions,
                   sent, polls, observed, loopSig, sendFailed, fixes,
                   discoverable, stopVars, statVars, uidVars, sigCount>>

\* setup_gps (run line 221): on failure gps_session stays None.
SetupGps(d) ==
    /\ pc[d] = "setup_gps"
    /\ \E ok \in BOOLEAN :
          gps_session' = [gps_session EXCEPT ![d] = IF ok THEN "gps" ELSE None]
    /\ Goto(d, "set_running")
    /\ UNCHANGED <<pidFile, stack, running, server_sock, client_sock,
                   gps_data, handlers, sigPending, sessions, sent, polls,
                   observed, loopSig, sendFailed, fixes, discoverable, sdp,
                   stopVars, statVars, uidVars, sigCount>>

\* run line 223.
SetRunning(d) ==
    /\ pc[d] = "set_running"
    /\ running' = [running EXCEPT ![d] = TRUE]
    /\ Goto(d, "loop_test")
    /\ UNCHANGED <<pidFile, stack, server_sock, client_sock, gps_session,
                   gps_data, handlers, sigPending, sessions, sent, polls,
                   observed, loopSig, sendFailed, fixes, discoverable, sdp,
                   stopVars, statVars, uidVars, sigCount>>

----------------------------------------------------------------------------
(* run lines 225-232 and send_gps_data: the accept / poll / send loop.     *)

\* run line 225: while self.running.
RunLoopGuard(d) == running[d]

LoopTest(d) ==
    /\ pc[d] = "loop_test"
    /\ Goto(d, IF RunLoopGuard(d) THEN "accept" ELSE "exited")
    /\ UNCHANGED <<pidFile, stack, running, server_sock, client_sock,
                   gps_session, gps_data, handlers, sigPending, sessions,
                   sent, polls, observed, loopSig, sendFailed, fixes,
                   discoverable, sdp, stopVars, statVars, uidVars, sigCount>>

\* Mutant of AcceptConnection: no try block around accept; an accept error
\* ends the process.
AcceptConnectionFatal(d) ==
    /\ pc[d] = "accept"
    /\ \/ /\ server_sock[d] = "open"
          /\ client_sock' = [client_sock EXCEPT ![d] = "open"]
          /\ sessions' = [sessions EXCEPT ![d] = @ + 1]
          /\ sent' = [sent EXCEPT ![d] = <<>>]
          /\ sendFailed' = [sendFailed EXCEPT ![d] = FALSE]
          /\ fixes' = [fixes EXCEPT ![d] = <<>>]
          /\ Goto(d, "send_test")
       \/ /\ Goto(d, "exited")
          /\ UNCHANGED <<client_sock, sessions, sent, sendFailed, fixes>>
    /\ UNCHANGED <<pidFile, stack, running, server_sock,
                   gps_session, gps_data, handlers, sigPending,
                   polls, observed, loopSig, discoverable, sdp, stopVars,
                   statVars, uidVars, sigCount>>

\* accept_connection (run line 226): blocks until a peer connects or accept
\* raises.  A successful accept stores the new socket in self.client_sock;
\* line 193 logs the start of the transmission.
AcceptConnection(d) ==
    /\ pc[d] = "accept"
    /\ \/ /\ server_sock[d] = "open"
          /\ client_sock' = [client_sock EXCEPT ![d] = "open"]
          /\ sessions' = [sessions EXCEPT ![d] = @ + 1]
          /\ sent' = [sent EXCEPT ![d] = <<>>]
          /\ sendFailed' = [sendFailed EXCEPT ![d] = FALSE]
          /\ fixes' = [fixes EXCEPT ![d] = <<>>]
          /\ Goto(d, "send_test")
       \/ /\ Goto(d, "sleep1")
          /\ UNCHANGED <<client_sock, sessions, sent, sendFailed, fixes>>
    /\ UNCHANGED <<pidFile, stack, running, server_sock,
                   gps_session, gps_data, handlers, sigPending,
                   polls, observed, loopSig, discoverable, sdp, stopVars,
                   statVars, uidVars, sigCount>>

\* Mutant of SendLoopGuard: the loop does not look at the flag (while True).
SendLoopGuardAlways(d) == TRUE

\* send_gps_data line 195: while self.running.
SendLoopGuard(d) == running[d]

SendTest(d) ==
    /\ pc[d] = "send_test"
    /\ Goto(d, IF SendLoopGuard(d) THEN "get_gps" ELSE "close_client")
    /\ UNCHANGED <<pidFile, stack, running, server_sock, client_sock,
                   gps_session, gps_data, handlers, sigPending, sessions,
                   sent, polls, observed, loopSig, sendFailed, fixes,
                   discoverable, sdp, stopVars, statVars, uidVars, sigCount>>

\* Mutant of GetGpsData: no try block in get_gps_data and none around it;
\* a polling error ends the send loop.
GetGpsDataUncaught(d) ==
    /\ pc[d] = "get_gps"
    /\ \/ /\ gps_session[d] = None
          /\ Goto(d, "close_client")
          /\ UNCHANGED <<polls, gps_data, fixes>>
       \/ /\ gps_session[d] # None
          /\ polls[d] < MaxPolls
          /\ polls' = [polls EXCEPT ![d] = @ + 1]
          /\ \E report \in Reports :
                gps_data' = [gps_data EXCEPT ![d] = GpsData(report)]
          /\ fixes' = IF gps_data'[d] # NoData
                      THEN [fixes EXCEPT ![d] = Append(@, gps_data'[d])]
                      ELSE fixes
          /\ Goto(d, "check")
    /\ UNCHANGED <<pidFile, stack, running, server_sock, client_sock,
                   gps_session, handlers, sigPending, sessions,
                   sent, observed, loopSig, sendFailed, discoverable, sdp,
                   stopVars, statVars, uidVars, sigCount>>

\* get_gps_data (line 197).  With gps_session None the call raises and the
\* bare except returns None; otherwise next() blocks until the source
\* delivers a report, or raises.
GetGpsData(d) ==
    /\ pc[d] = "get_gps"
    /\ \/ /\ gps_session[d] = None
          /\ gps_data' = [gps_data EXCEPT ![d] = NoData]
          /\ UNCHANGED polls
       \/ /\ gps_session[d] # None
          /\ polls[d] < MaxPolls
          /\ polls' = [polls EXCEPT ![d] = @ + 1]
          /\ \/ \E report \in Reports :
                   gps_data' = [gps_data EXCEPT ![d] = GpsData(report)]
             \/ gps_data' = [gps_data EXCEPT ![d] = NoData]
    /\ fixes' = IF gps_data'[d] # NoData
                THEN [fixes EXCEPT ![d] = Append(@, gps_data'[d])]
                ELSE fixes
    /\ Goto(d, "check")
    /\ UNCHANGED <<pidFile, stack, running, server_sock, client_sock,
                   gps_session, handlers, sigPending, sessions,
                   sent, observed, loopSig, sendFailed, discoverable, sdp,
                   stopVars, statVars, uidVars, sigCount>>

\* Mutant of SendGuard: the test forgets gps_data (if self.client_sock).
SendGuardNoFixTest(d) == Truthy(client_sock[d])

\* send_gps_data line 199: if gps_data and self.client_sock.
SendGuard(d) == gps_data[d] # NoData /\ Truthy(client_sock[d])

CheckData(d) ==
    /\ pc[d] = "check"
    /\ Goto(d, IF SendGuard(d) THEN "send" ELSE "sleep2")
    /\ UNCHANGED <<pidFile, stack, running, server_sock, client_sock,
                   gps_session, gps_data, handlers, sigPending, sessions,
                   sent, polls, observed, loopSig, sendFailed, fixes,
                   discoverable, sdp, stopVars, statVars, uidVars, sigCount>>

\* Mutant of SendRecord: a failed send is logged and the loop goes on
\* (no break at line 205).
SendRecordRetry(d) ==
    /\ pc[d] = "send"
    /\ \/ /\ client_sock[d] = "open"
          /\ sent' = [sent EXCEPT ![d] = Append(@, Serialize(gps_data[d]))]
          /\ UNCHANGED sendFailed
       \/ /\ sendFailed' = [sendFailed EXCEPT ![d] = TRUE]
          /\ UNCHANGED sent
    /\ Goto(d, "sleep2")
    /\ UNCHANGED <<pidFile, stack, running, server_sock, client_sock,
                   gps_session, gps_data, handlers, sigPending, sessions,
                   polls, observed, loopSig, fixes, discoverable, sdp,
                   stopVars, statVars, uidVars, sigCount>>

\* send_gps_data lines 200-205: serialize and send; a failed send (peer gone,
\* socket already closed) logs "Connection lost" and breaks out of the loop.
SendRecord(d) ==
    /\ pc[d] = "send"
    /\ \/ /\ client_sock[d] = "open"
          /\ sent' = [sent EXCEPT ![d] = Append(@, Serialize(gps_data[d]))]
          /\ Goto(d, "sleep2")
          /\ UNCHANGED sendFailed
       \/ /\ Goto(d, "close_client")
          /\ sendFailed' = [sendFailed EXCEPT ![d] = TRUE]
          /\ UNCHANGED sent
    /\ UNCHANGED <<pidFile, stack, running, server_sock, client_sock,
                   gps_session, gps_data, handlers, sigPending, sessions,
                   polls, observed, loopSig, fixes, discoverable, sdp,
                   stopVars, statVars, uidVars, sigCount>>

\* Mutant of Sleep2: the loop comes back to the test of line 199 without
\* polling again.
Sleep2NoPoll(d) ==
    /\ pc[d] = "sleep2"
    /\ Goto(d, "check")
    /\ UNCHANGED <<pidFile, stack, running, server_sock, client_sock,
                   gps_session, gps_data, handlers, sigPending, sessions,
                   sent, polls, observed, loopSig, sendFailed, fixes,
                   discoverable, sdp, stopVars, statVars, uidVars, sigCount>>

\* send_gps_data line 207: time.sleep(2).
Sleep2(d) ==
    /\ pc[d] = "sleep2"
    /\ Goto(d, "send_test")
    /\ UNCHANGED <<pidFile, stack, running, server_sock, client_sock,
                   gps_session, gps_data, handlers, sigPending, sessions,
                   sent, polls, observed, loopSig, sendFailed, fixes,
                   discoverable, sdp, stopVars, statVars, uidVars, sigCount>>

\* send_gps_data lines 208-210: log the error, time.sleep(2).
SleepErr(d) ==
    /\ pc[d] = "sleep_err"
    /\ Goto(d, "send_test")
    /\ UNCHANGED <<pidFile, stack, running, server_sock, client_sock,
                   gps_session, gps_data, handlers, sigPending, sessions,
                   sent, polls, observed, loopSig, sendFailed, fixes,
                   discoverable, sdp, stopVars, statVars, uidVars, sigCount>>

\* Mutant of CloseClient: the socket is forgotten without being closed.
CloseClientLeak(d) ==
    /\ pc[d] = "close_client"
    /\ client_sock' = [client_sock EXCEPT ![d] = None]
    /\ Goto(d, "sleep1")
    /\ UNCHANGED <<pidFile, stack, running, server_sock, sessions,
                   gps_session, gps_data, handlers, sigPending, sent, polls,
                   observed, loopSig, sendFailed, fixes, discoverable, sdp,
                   stopVars, statVars, uidVars, sigCount>>

\* run lines 228-231: close the session's socket and forget it.
CloseClient(d) ==
    /\ pc[d] = "close_client"
    /\ sessions' = [sessions EXCEPT ![d] = AfterClose(d)]
    /\ client_sock' = [client_sock EXCEPT ![d] = None]
    /\ Goto(d, "sleep1")
    /\ UNCHANGED <<pidFile, stack, running, server_sock, gps_session,
                   gps_data, handlers, sigPending, sent, polls, observed,
                   loopSig, sendFailed, fixes, discoverable, sdp, stopVars,
                   statVars, uidVars, sigCount>>

\* Mutant of Sleep1: run returns after the first session instead of looping.
Sleep1Return(d) ==
    /\ pc[d] = "sleep1"
    /\ Goto(d, "exited")
    /\ UNCHANGED <<pidFile, stack, running, server_sock, client_sock,
                   gps_session, gps_data, handlers, sigPending, sessions,
                   sent, polls, observed, loopSig, sendFailed, fixes,
                   discoverable, sdp, stopVars, statVars, uidVars, sigCount>>

\* run line 232: time.sleep(1).
Sleep1(d) ==
    /\ pc[d] = "sleep1"
    /\ Goto(d, "loop_test")
    /\ UNCHANGED <<pidFile, stack, running, server_sock, client_sock,
                   gps_session, gps_data, handlers, sigPending, sessions,
                   sent, polls, observed, loopSig, sendFailed, fixes,
                   discoverable, sdp, stopVars, statVars, uidVars, sigCount>>

----------------------------------------------------------------------------
(* signal_handler and cleanup.                                             *)

\* os.path.exists(pid_file).
Exists(file) == file # NoFile

\* os.remove(pid_file): removes the file, FileNotFoundError without one.
Remove(file) ==
    IF file # NoFile THEN [file |-> NoFile, err |-> FALSE]
                     ELSE [file |-> NoFile, err |-> TRUE]

\* What cleanup reads and writes, for daemon d in the current state.
CleanupView(d) ==
    [running |-> running[d], client |-> client_sock[d],
     server |-> server_sock[d], sdp |-> sdp, file |-> pidFile, err |-> FALSE]

\* cleanup lines 236-242: clear the flag, delete the service record.
CleanupSdp(c) == [c EXCEPT !.running = FALSE, !.sdp = FALSE]

\* cleanup lines 244-248: close the client socket if there is one.
CleanupClient(c) ==
    [c EXCEPT !.client = IF Truthy(c.client) THEN Close(c.client) ELSE c.client]

\* cleanup lines 250-254: close the listening socket if there is one.
CleanupServer(c) ==
    [c EXCEPT !.server = IF Truthy(c.server) THEN Close(c.server) ELSE c.server]

\* Mutant of CleanupPid: os.remove without the os.path.exists test.
CleanupPidNoCheck(c) ==
    [c EXCEPT !.file = Remove(c.file).file, !.err = Remove(c.file).err]

\* cleanup lines 256-257: remove the PID file if it exists.
CleanupPid(c) ==
    IF Exists(c.file)
    THEN [c EXCEPT !.file = Remove(c.file).file, !.err = Remove(c.file).err]
    ELSE c

\* cleanup run from start to end with nothing else acting in between.
Cleanup(c) == CleanupPid(CleanupServer(CleanupClient(CleanupSdp(c))))

\* A pending signal is taken: Python runs signal_handler between two
\* bytecodes of the main thread, or on return from the interrupted call.
HandlerEnter(d) ==
    /\ Alive(d)
    /\ handlers[d]
    /\ sigPending[d]
    /\ sigPending' = [sigPending EXCEPT ![d] = FALSE]
    /\ stack' = [stack EXCEPT ![d] = Append(@, pc[d])]
    /\ Goto(d, "h_enter")
    /\ UNCHANGED <<pidFile, running, server_sock, client_sock, gps_session,
                   gps_data, handlers, sessions, sent, polls, observed,
                   loopSig, sendFailed, fixes, discoverable, sdp, stopVars,
                   statVars, uidVars, sigCount>>

\* signal_handler lines 90-91: log, self.running = False.
HandlerFlag(d) ==
    /\ pc[d] = "h_enter"
    /\ running' = [running EXCEPT ![d] = FALSE]
    /\ observed' = [observed EXCEPT ![d] = TRUE]
    /\ loopSig' = [loopSig EXCEPT ![d] = @ \/ stack[d][1] \in LoopPcs]
    /\ Goto(d, "c_sdp")
    /\ UNCHANGED <<pidFile, stack, server_sock, client_sock,
                   gps_session, gps_data, handlers, sigPending, sessions,
                   sent, polls, sendFailed, fixes, discoverable, sdp, stopVars,
                   statVars, uidVars, sigCount>>

CSdp(d) ==
    /\ pc[d] = "c_sdp"
    /\ LET c == CleanupSdp(CleanupView(d)) IN
          /\ running' = [running EXCEPT ![d] = c.running]
          /\ sdp' = c.sdp
    /\ Goto(d, "c_client")
    /\ UNCHANGED <<pidFile, stack, server_sock, client_sock, gps_session,
                   gps_data, handlers, sigPending, sessions, sent, polls,
                   observed, loopSig, sendFailed, fixes, discoverable,
                   stopVars, statVars, uidVars, sigCount>>

CClient(d) ==
    /\ pc[d] = "c_client"
    /\ LET c == CleanupClient(CleanupView(d)) IN
          /\ client_sock' = [client_sock EXCEPT ![d] = c.client]
          /\ sessions' = [sessions EXCEPT ![d] =
                IF client_sock[d] = "open" /\ c.client # "open"
                THEN @ - 1 ELSE @]
    /\ Goto(d, "c_server")
    /\ UNCHANGED <<pidFile, stack, running, server_sock, gps_session,
                   gps_data, handlers, sigPending, sent, polls, observed,
                   loopSig, sendFailed, fixes, discoverable, sdp, stopVars,
                   statVars, uidVars, sigCount>>

CServer(d) ==
    /\ pc[d] = "c_server"
    /\ LET c == CleanupServer(CleanupView(d)) IN
          server_sock' = [server_sock EXCEPT ![d] = c.server]
    /\ Goto(d, "c_exists")
    /\ UNCHANGED <<pidFile, stack, running, client_sock, gps_session,
                   gps_data, handlers, sigPending, sessions, sent, polls,
                   observed, loopSig, sendFailed, fixes, discoverable, sdp,
                   stopVars, statVars, uidVars, sigCount>>

\* cleanup line 256; without a PID file cleanup goes on to line 259.
CExists(d) ==
    /\ pc[d] = "c_exists"
    /\ Goto(d, IF Exists(pidFile) THEN "c_remove" ELSE "h_exit")
    /\ UNCHANGED <<pidFile, stack, running, server_sock, client_sock,
                   gps_session, gps_data, handlers, sigPending, sessions,
                   sent, polls, observed, loopSig, sendFailed, fixes,
                   discoverable, sdp, stopVars, statVars, uidVars, sigCount>>

\* cleanup line 257: os.remove; FileNotFoundError leaves cleanup and the
\* handler and propagates into the interrupted statement.
CRemove(d) ==
    /\ pc[d] = "c_remove"
    /\ pidFile' = Remove(pidFile).file
    /\ IF Remove(pidFile).err
       THEN Raise(d, "Exception")
       ELSE Goto(d, "h_exit") /\ UNCHANGED <<stack, gps_data>>
    /\ UNCHANGED <<running, server_sock, client_sock, gps_session, handlers,
                   sigPending, sessions, sent, polls, observed, loopSig,
                   sendFailed, fixes, discoverable, sdp, stopVars, statVars,
                   uidVars, sigCount>>

\* cleanup line 259 and signal_handler line 93: sys.exit(0) raises
\* SystemExit in the interrupted statement.
HandlerExit(d) ==
    /\ pc[d] = "h_exit"
    /\ Raise(d, "SystemExit")
    /\ UNCHANGED <<pidFile, running, server_sock, client_sock, gps_session,
                   handlers, sigPending, sessions, sent, polls, observed,
                   loopSig, sendFailed, fixes, discoverable, sdp, stopVars,
                   statVars, uidVars, sigCount>>

----------------------------------------------------------------------------
(* Signals.                                                                *)

\* Effect of SIGTERM / SIGINT arriving at process d: pending for the handler
\* when one is installed, otherwise the default action ends the process.
Deliver(d) ==
    IF handlers[d]
    THEN /\ sigPending' = [sigPending EXCEPT ![d] = TRUE]
         /\ UNCHANGED pc
    ELSE /\ Goto(d, "exited")
         /\ UNCHANGED sigPending

\* A termination signal from outside the stop command (kill, Ctrl-C,
\* system shutdown).
Signal(d) ==
    /\ Alive(d)
    /\ sigCount < MaxSignals
    /\ sigCount' = sigCount + 1
    /\ Deliver(d)
    /\ UNCHANGED <<pidFile, stack, running, server_sock, client_sock,
                   gps_session, gps_data, handlers, sessions, sent, polls,
                   observed, loopSig, sendFailed, fixes, discoverable, sdp,
                   stopVars, statVars, uidVars>>

----------------------------------------------------------------------------
\* The operator issues one stop or status command at a time (lines 320-328:
\* each invocation runs one command in the foreground).
CliIdle == stopPc = "idle" /\ statPc = "idle" /\ cmdEuid = NoUid

\* The foreground command keeps its effective uid until it ends.
Foreground ==
    cmdEuid' = IF stopPc' = "idle" /\ statPc' = "idle" THEN NoUid ELSE cmdEuid

\* Lines 308-318 and 334-336: __main__ prints the usage, the permission
\* error or "Unknown command" and calls sys.exit(1).
MainRefuse ==
    /\ CliIdle
    /\ \E e \in Euids :
          /\ \E arg \in Argvs : Main(e, arg) = [run |-> "none", exit |-> 1]
          /\ cmdEuid' = e
    /\ UNCHANGED <<pidFile, dvars, discoverable, sdp, stopVars, statVars,
                   sigCount, euid>>

\* The refused command has exited.
MainExit ==
    /\ stopPc = "idle" /\ statPc = "idle" /\ cmdEuid # NoUid
    /\ cmdEuid' = NoUid
    /\ UNCHANGED <<pidFile, dvars, discoverable, sdp, stopVars, statVars,
                   sigCount, euid>>

----------------------------------------------------------------------------
(* stop: stop_daemon.  What the command prints is determined by the step   *)
(* it takes; between two invocations it keeps nothing.                     *)

\* Lines 270-271: open and read the PID file; FileNotFoundError prints
\* "Daemon is not running" (line 283) and the command ends.
StopOpen ==
    /\ CliIdle
    /\ IF Exists(pidFile)
       THEN stopPid' = pidFile /\ stopPc' = "kill"
       ELSE UNCHANGED <<stopPid, stopPc>>
    /\ UNCHANGED <<pidFile, dvars, discoverable, sdp, stopHit, statVars, euid,
                   sigCount>>
    /\ \E e \in Stops : cmdEuid' = IF Exists(pidFile) THEN e ELSE NoUid

\* Lines 273-274: os.kill(pid, SIGTERM) and "Stopped daemon"; for a dead
\* pid ProcessLookupError prints "Error stopping daemon" (line 285) and the
\* command ends.
StopKill ==
    /\ stopPc = "kill"
    /\ IF Alive(stopPid)
       THEN /\ Deliver(stopPid)
            /\ stopHit' = running[stopPid]
            /\ stopPc' = "sleep"
            /\ UNCHANGED stopPid
       ELSE /\ stopPc' = "idle"
            /\ stopPid' = 0
            /\ UNCHANGED <<pc, sigPending, stopHit>>
    /\ UNCHANGED <<pidFile, stack, running, server_sock, client_sock,
                   gps_session, gps_data, handlers, sessions, sent, polls,
                   observed, loopSig, sendFailed, fixes, discoverable, sdp,
                   statVars, euid, sigCount>>
    /\ Foreground

\* Line 277: time.sleep(1), the grace period.
StopSleep ==
    /\ stopPc = "sleep"
    /\ stopPc' = "exists"
    /\ UNCHANGED <<pidFile, dvars, discoverable, sdp, stopPid,
                   stopHit, statVars, euid, sigCount>>
    /\ Foreground

\* Line 279: os.path.exists(pid_file); without a file the command ends.
StopExists ==
    /\ stopPc = "exists"
    /\ IF Exists(pidFile)
       THEN stopPc' = "remove" /\ UNCHANGED <<stopPid, stopHit>>
       ELSE stopPc' = "idle" /\ stopPid' = 0 /\ stopHit' = FALSE
    /\ UNCHANGED <<pidFile, dvars, discoverable, sdp, statVars, euid,
                   sigCount>>
    /\ Foreground

\* Mutant of StopRemove: the command ends without removing the file.
StopRemoveKeep ==
    /\ stopPc = "remove"
    /\ stopPc' = "idle" /\ stopPid' = 0 /\ stopHit' = FALSE
    /\ UNCHANGED <<pidFile, dvars, discoverable, sdp, statVars, euid,
                   sigCount>>
    /\ Foreground

\* Line 280: os.remove(pid_file); FileNotFoundError is caught at line 282
\* and prints "Daemon is not running".  The command ends.
StopRemove ==
    /\ stopPc = "remove"
    /\ pidFile' = Remove(pidFile).file
    /\ stopPc' = "idle" /\ stopPid' = 0 /\ stopHit' = FALSE
    /\ UNCHANGED <<dvars, discoverable, sdp, statVars, euid, sigCount>>
    /\ Foreground

----------------------------------------------------------------------------
(* status: status_daemon.                                                  *)

\* Lines 290-291; FileNotFoundError prints "Daemon is not running"
\* (line 299) and the command ends.
StatusOpen ==
    /\ CliIdle
    /\ IF Exists(pidFile)
       THEN statPid' = pidFile /\ statPc' = "probe"
       ELSE UNCHANGED <<statPid, statPc>>
    /\ UNCHANGED <<pidFile, dvars, discoverable, sdp, stopVars, euid,
                   sigCount>>
    /\ \E e \in Statuses : cmdEuid' = IF Exists(pidFile) THEN e ELSE NoUid

\* Mutant of StatusProbe: the probe sends SIGTERM instead of signal 0.
StatusProbeKill ==
    /\ statPc = "probe"
    /\ IF Alive(statPid)
       THEN statPc' = "idle" /\ statPid' = 0 /\ Deliver(statPid)
       ELSE statPc' = "exists" /\ UNCHANGED <<statPid, pc, sigPending>>
    /\ UNCHANGED <<pidFile, stack, running, server_sock, client_sock,
                   gps_session, gps_data, handlers, sessions, sent, polls,
                   observed, loopSig, sendFailed, fixes, discoverable, sdp,
                   stopVars, euid, sigCount>>
    /\ Foreground

\* Lines 294-296, 300-301: os.kill(pid, 0) sends nothing; it only reports
\* whether the process exists.  Alive: "Daemon is running", the command
\* ends.  Dead: "PID file exists but process is dead".
StatusProbe ==
    /\ statPc = "probe"
    /\ IF Alive(statPid)
       THEN statPc' = "idle" /\ statPid' = 0
       ELSE statPc' = "exists" /\ UNCHANGED statPid
    /\ UNCHANGED <<pidFile, dvars, discoverable, sdp, stopVars, euid,
                   sigCount>>
    /\ Foreground

\* Line 302.
StatusExists ==
    /\ statPc = "exists"
    /\ IF Exists(pidFile)
       THEN statPc' = "remove" /\ UNCHANGED statPid
       ELSE statPc' = "idle" /\ statPid' = 0
    /\ UNCHANGED <<pidFile, dvars, discoverable, sdp, stopVars, euid,
                   sigCount>>
    /\ Foreground

\* Line 303: os.remove inside the except clause; a FileNotFoundError here
\* is caught by nothing and ends the command with a traceback.
StatusRemove ==
    /\ statPc = "remove"
    /\ pidFile' = Remove(pidFile).file
    /\ statPc' = "idle" /\ statPid' = 0
    /\ UNCHANGED <<dvars, discoverable, sdp, stopVars, euid, sigCount>>
    /\ Foreground

----------------------------------------------------------------------------
\* One step of the main line of daemon d, other than the except clause of
\* line 208, which only an exception out of a signal handler reaches.
QuietStep(d) ==
    \/ DFork(d) \/ DWritePid(d) \/ DInstall(d)
    \/ MakeDiscoverable(d) \/ SetupBluetooth(d) \/ RunReturn(d)
    \/ RegisterSdp(d) \/ SetupGps(d) \/ SetRunning(d)
    \/ LoopTest(d) \/ AcceptConnection(d) \/ SendTest(d) \/ GetGpsData(d)
    \/ CheckData(d) \/ SendRecord(d) \/ Sleep2(d)
    \/ CloseClient(d) \/ Sleep1(d)

\* One step of the main line of daemon d.
MainStep(d) == QuietStep(d) \/ SleepErr(d)

\* One step of a signal handler running in daemon d.
HandlerStep(d) ==
    \/ HandlerFlag(d) \/ CSdp(d) \/ CClient(d) \/ CServer(d)
    \/ CExists(d) \/ CRemove(d) \/ HandlerExit(d)

StopStep == StopOpen \/ StopKill \/ StopSleep \/ StopExists \/ StopRemove

StatusStep == StatusOpen \/ StatusProbe \/ StatusExists \/ StatusRemove

RefuseStep == MainRefuse \/ MainExit

Next ==
    \/ \E d \in Pids : Start(d)
    \/ \E d \in Pids : MainStep(d)
    \/ \E d \in Pids : HandlerEnter(d)
    \/ \E d \in Pids : HandlerStep(d)
    \/ \E d \in Pids : Signal(d)
    \/ StopStep
    \/ StatusStep
    \/ RefuseStep

Spec == Init /\ [][Next]_vars

----------------------------------------------------------------------------
(* Repeated start.  start_daemon (lines 261-265) tests neither for a PID   *)
(* file nor for a live daemon: a further start forks, overwrites the PID   *)
(* file and runs beside the daemon that is already there.  MultiSpec       *)
(* follows the daemons of successive start commands, and the status        *)
(* command, while no termination signal is sent.                           *)
StartAgain(d) ==
    /\ pc[d] = "unborn"
    /\ ~StartAllowed(d)
    /\ pc[FirstPid] # "unborn"
    /\ Goto(d, "d_fork")
    /\ \E e \in Starts : euid' = [euid EXCEPT ![d] = e]
    /\ UNCHANGED <<pidFile, stack, running, server_sock, client_sock,
                   gps_session, gps_data, handlers, sigPending, sessions,
                   sent, polls, observed, loopSig, sendFailed, fixes,
                   discoverable, sdp, stopVars, statVars, cmdEuid, sigCount>>

MultiNext ==
    \/ \E d \in Pids : Start(d)
    \/ \E d \in Pids : StartAgain(d)
    \/ \E d \in Pids : QuietStep(d)
    \/ StatusStep

MultiSpec == Init /\ [][MultiNext]_vars

----------------------------------------------------------------------------
(* The daemon states of the specification, read off the process.           *)

\* Stopped: no process, or one that has not yet written its PID file.
\* ShuttingDown: signal_handler has cleared the running flag.  Running: the
\* flag is set.  Starting: the PID file is written, the flag not yet set.
DaemonState(d) ==
    IF pc[d] \in {"unborn", "d_fork", "d_pid", "exited"} THEN "Stopped"
    ELSE IF observed[d] THEN "ShuttingDown"
    ELSE IF running[d] THEN "Running"
    ELSE "Starting"

\* Client sessions of d that exist: accepted sockets of a live process that
\* have not been closed.
LiveSessions(d) == IF Alive(d) THEN sessions[d] ELSE 0

----------------------------------------------------------------------------
(* C1.  PID-file / state correspondence: in every reachable state the PID  *)
(* file exists if and only if the daemon is Starting or Running.           *)
C1_PidFileIffStartingOrRunning ==
    Exists(pidFile) <=>
        \E d \in Pids : DaemonState(d) \in {"Starting", "Running"}

(* C2.  Single session: a daemon never has two accepted, not yet closed    *)
(* client sockets, and whenever it is at accept the previous session's     *)
(* socket has been closed.                                                 *)
C2_SingleSession ==
    \A d \in Pids :
        /\ LiveSessions(d) <= 1
        /\ pc[d] = "accept" => LiveSessions(d) = 0 /\ client_sock[d] # "open"

\* A session in which a record was sent is over and accept is re-entered.
C2_Witness ==
    \E d \in Pids : pc[d] = "accept" /\ sent[d] # <<>> /\ sessions[d] = 0

(* C3.  Once signal_handler has run for a signal that interrupted the      *)
(* accept / poll / send / sleep loop, at whichever of its statements, the  *)
(* main line of the daemon is never again at the send or at the accept.    *)
C3_NoSendNoAcceptAfterSignal ==
    \A d \in Pids :
        loopSig[d] /\ ~InHandler(d) => pc[d] \notin {"send", "accept"}

\* The signal landed inside get_gps_data's try block: SystemExit was
\* swallowed and the send loop goes on with a closed client socket.
C3_Witness ==
    \E d \in Pids :
        loopSig[d] /\ pc[d] = "check" /\ client_sock[d] = "closed"

(* C4.  Idempotent shutdown: from every reachable state, cleanup run twice *)
(* in succession raises no error in the second run and ends in the state   *)
(* the first run ended in: not running, no PID file, client socket and     *)
(* listening socket closed.                                                *)
C4_IdempotentShutdown ==
    \A d \in Pids :
        LET once == Cleanup(CleanupView(d))
            twice == Cleanup(once)
        IN /\ ~once.err
           /\ twice = once
           /\ ~once.running
           /\ ~Exists(once.file)
           /\ once.client \in {None, "closed"}
           /\ once.server \in {None, "closed"}

\* cleanup has run to its end twice: a second handler interrupted the first
\* one after its cleanup and has finished its own.
C4_Witness ==
    \E d \in Pids :
        /\ pc[d] = "h_exit"
        /\ Len(stack[d]) = 2
        /\ stack[d][2] = "h_exit"
        /\ client_sock[d] = "closed"
        /\ server_sock[d] = "closed"

----------------------------------------------------------------------------
(* Scheduling.  A process that can take a step takes one, except while it  *)
(* waits in a call that only the peer or the location source can end; a    *)
(* pending signal is taken, and a handler runs on.                         *)

\* The main line waits for a peer to connect, for a report, or for the
\* peer to take the data.
Blocked(d) ==
    \/ pc[d] = "accept" /\ server_sock[d] = "open"
    \/ pc[d] = "get_gps" /\ gps_session[d] # None
    \/ pc[d] = "send" /\ client_sock[d] = "open"

Fairness(d) ==
    /\ WF_vars(MainStep(d) /\ ~Blocked(d))
    /\ WF_vars(HandlerEnter(d))
    /\ WF_vars(HandlerStep(d))

FairSpec == Spec /\ \A d \in Pids : Fairness(d)

\* A termination signal has arrived at d.
Signalled(d) == sigPending[d] \/ InHandler(d) \/ observed[d]

----------------------------------------------------------------------------
(* C5.  Reconnect loop: when a send fails in a Running daemon (the send    *)
(* loop is left by the break with the flag still set), the daemon closes   *)
(* the session and is back at accept on its open listening socket, unless  *)
(* a termination signal arrives first.                                     *)
C5_ReconnectAfterWriteFailure ==
    \A d \in Pids :
        (pc[d] = "close_client" /\ running[d])
            ~> \/ /\ pc[d] = "accept"
                  /\ client_sock[d] = None
                  /\ LiveSessions(d) = 0
                  /\ server_sock[d] = "open"
               \/ Signalled(d)

\* A send has just failed on an open session of a daemon no signal has
\* reached.
C5_Witness ==
    \E d \in Pids :
        /\ pc[d] = "close_client" /\ running[d] /\ ~Signalled(d)
        /\ client_sock[d] = "open" /\ sent[d] # <<>>

(* C6.  No-fix suppression: while the latest poll of the location source   *)
(* has yielded no fix (None, also when polling raised), no step writes a   *)
(* record to the client; so N such polls in a row write nothing.           *)
C6_NoFixNoRecord ==
    [][\A d \in Pids :
          gps_data[d] = NoData \/ gps_data'[d] = NoData
              => Len(sent'[d]) <= Len(sent[d])]_vars

\* A session in which every report so far gave no fix and nothing was sent.
C6_Witness ==
    \E d \in Pids :
        /\ pc[d] = "sleep2" /\ gps_data[d] = NoData
        /\ client_sock[d] = "open" /\ sent[d] = <<>>
        /\ polls[d] = MaxPolls

(* C7 as claimed.  No step of the stop command deletes the PID file.       *)
C7_StopNeverDeletes ==
    [][stopPc' # stopPc => pidFile' = pidFile]_vars

(* C7 as amended.  stop reads the PID file, signals the process and waits  *)
(* out the grace period without touching the file; then, if the file still *)
(* exists, stop deletes it: no PID file is left when stop returns.         *)
C7_StopDeletesAfterGrace ==
    [][stopPc' # stopPc =>
          /\ stopPc \in {"idle", "kill", "sleep", "exists"}
                => pidFile' = pidFile
          /\ stopPc \in {"exists", "remove"} /\ stopPc' = "idle"
                => pidFile' = NoFile]_vars

\* The grace period is over, the daemon is still alive and its PID file
\* still exists: stop is about to remove it.
C7_Witness ==
    stopPc = "remove" /\ Exists(pidFile) /\ Alive(stopPid)

(* C8.  When stop was issued against a Running daemon, then at the return  *)
(* of stop the PID file is gone and the daemon process is no longer alive. *)
(* Stated for the returns most favourable to the code: the signal handler  *)
(* has already run to its end within the grace period.                     *)
C8_StoppedWhenStopReturns ==
    [][(/\ stopPc \in {"exists", "remove"} /\ stopPc' = "idle"
        /\ stopHit
        /\ observed[stopPid] /\ ~InHandler(stopPid)
        /\ stack[stopPid] = <<>>)
          => pidFile' = NoFile /\ pc'[stopPid] = "exited"]_vars

(* C9.  Shutdown causes exit: once the handler of a termination signal    *)
(* has begun to run in a daemon, the process eventually ends, with its     *)
(* client socket and listening socket closed and its PID file removed.     *)
C9_SignalCausesExit ==
    \A d \in Pids :
        observed[d]
            ~> /\ pc[d] = "exited"
               /\ client_sock[d] # "open"
               /\ server_sock[d] \in {None, "closed"}
               /\ pidFile # d

(* C10.  status: it goes on to the probe only when there is a PID file     *)
(* (without one it reports "not running" and changes nothing); it reports  *)
(* "running" only for a live process and "stale" only for a dead one; the  *)
(* read and the probe change neither the file nor any process; after       *)
(* "stale" the PID file is deleted and nothing else is touched.            *)
C10_StatusOutcomes ==
    [][statPc' # statPc =>
          /\ statPc = "idle" => Exists(pidFile)
          /\ statPc = "probe" /\ statPc' = "idle" => Alive(statPid)
          /\ statPc = "probe" /\ statPc' = "exists" => ~Alive(statPid)
          /\ statPc \in {"idle", "probe"} =>
                UNCHANGED <<pidFile, dvars, stopVars, euid>>
          /\ statPc \in {"exists", "remove"} =>
                /\ UNCHANGED <<dvars, stopVars, euid>>
                /\ statPc' = "idle" => pidFile' = NoFile]_vars

\* status found the PID file of a dead process and is about to delete it.
C10_Witness ==
    statPc = "remove" /\ Exists(pidFile) /\ ~Alive(statPid)

(* C11.  While a daemon is Running the PID file contains that daemon's     *)
(* process id, whatever start and status commands have been issued,        *)
(* a start beside a running daemon included.                               *)
C11_PidFileNamesRunningDaemon ==
    \A d \in Pids : DaemonState(d) = "Running" => pidFile = d

(* C12.  When the listening server fails to open, the device has not been  *)
(* made discoverable during that start attempt.                            *)
C12_NotDiscoverableOnOpenFailure ==
    \A d \in Pids : pc[d] = "run_ret" => ~discoverable

\* setup_bluetooth has failed in d: run is at its return of line 218, or a
\* signal handler has interrupted it there.
SetupFailed(d) ==
    \/ pc[d] = "run_ret"
    \/ stack[d] # <<>> /\ stack[d][1] = "run_ret"

(* C13.  The running flag is set, and the accept loop entered, only with   *)
(* a server socket that was bound and listening; after a failed            *)
(* setup_bluetooth the daemon never sets the flag, never is in the loop,   *)
(* never has a client, and the only way on is the end of the process.      *)
C13_RunningOnlyAfterListen ==
    /\ [](\A d \in Pids :
            /\ running[d] \/ pc[d] \in LoopPcs \/ sessions[d] > 0
                  => server_sock[d] \in {"open", "closed"}
            /\ SetupFailed(d) =>
                  /\ ~running[d] /\ pc[d] \notin LoopPcs
                  /\ sessions[d] = 0 /\ client_sock[d] = None)
    /\ [][\A d \in Pids :
            SetupFailed(d) => SetupFailed(d)' \/ pc'[d] = "exited"]_vars

\* The socket was created but could not be bound; the process has ended.
C13_Witness ==
    \E d \in Pids :
        /\ pc[d] = "exited" /\ server_sock[d] = "unbound"
        /\ ~running[d] /\ sessions[d] = 0

(* C14.  A command invoked without root privilege exits with status 1 and  *)
(* dispatches to nothing; so every process that was forked for a daemon    *)
(* and every stop or status command at work belongs to root, and the       *)
(* beginning and the end of a refused command change neither the PID       *)
(* file nor any process, socket or pending signal.                         *)
C14_UnprivilegedTouchesNothing ==
    /\ [](\A e \in Euids \ {Root} : \A arg \in Argvs :
            Main(e, arg) = [run |-> "none", exit |-> 1])
    /\ [](\A d \in Pids : pc[d] # "unborn" => euid[d] = Root)
    /\ [](stopPc # "idle" \/ statPc # "idle" => cmdEuid = Root)
    /\ [][cmdEuid' # cmdEuid
            /\ (cmdEuid \notin {NoUid, Root} \/ cmdEuid' \notin {NoUid, Root})
          => UNCHANGED <<pidFile, dvars, discoverable, sdp, stopVars,
                         statVars, sigCount, euid>>]_vars

\* A command of a caller who is not root is being refused while a daemon
\* is Running and its PID file exists.
C14_Witness ==
    /\ cmdEuid \notin {NoUid, Root}
    /\ \E d \in Pids : DaemonState(d) = "Running" /\ pidFile = d

(* C15.  A failed send ends the session and only the session: the step in  *)
(* which the send fails leaves the running flag and the daemon's state as  *)
(* they were and writes nothing, and once a send has failed on a client    *)
(* socket the daemon is never again at a send on that socket.              *)
C15_WriteFailureEndsSession ==
    /\ [](\A d \in Pids : sendFailed[d] => pc[d] # "send")
    /\ [][\A d \in Pids :
            ~sendFailed[d] /\ sendFailed'[d] =>
                /\ running'[d] = running[d]
                /\ DaemonState(d)' = DaemonState(d)
                /\ sent'[d] = sent[d]
                /\ pc'[d] = "close_client"]_vars

\* After a failed send the session was closed and the daemon, still
\* Running, waits for the next peer.
C15_Witness ==
    \E d \in Pids :
        /\ sendFailed[d] /\ pc[d] = "accept" /\ client_sock[d] = None
        /\ DaemonState(d) = "Running"

\* The record json.dumps makes of the i-th valid fix of the session.
RecordOf(d, i) ==
    <<"gps", fixes[d][i].latitude, fixes[d][i].longitude, "\n">>

\* The fix last returned by get_gps_data is still to be sent: the daemon
\* is between the poll of line 197 and the send of line 202.
Pending(d) == pc[d] \in {"check", "send"} /\ gps_data[d] # NoData

(* C16.  In a session without a failed send, on a daemon no termination    *)
(* signal has reached, the records written to the client are the valid     *)
(* fixes the polls of the session returned, one record each, in poll       *)
(* order, with the coordinates of the fix; only the fix just polled may    *)
(* still be waiting for its send.                                          *)
C16_RecordsAreTheFixes ==
    \A d \in Pids :
        ~sendFailed[d] /\ ~Signalled(d) =>
            LET n == IF Pending(d) THEN Len(fixes[d]) - 1 ELSE Len(fixes[d])
            IN /\ Len(sent[d]) = n
               /\ \A i \in 1..n : sent[d][i] = RecordOf(d, i)
               /\ Len(sent[d]) <= polls[d]

\* Two different fixes were polled and sent in one session.
C16_Witness ==
    \E d \in Pids :
        /\ ~sendFailed[d] /\ ~Signalled(d) /\ client_sock[d] = "open"
        /\ Len(sent[d]) = 2 /\ sent[d][1] # sent[d][2]
        /\ pc[d] = "sleep2"

\* Daemon d goes from statement p to statement q by a step of its main
\* line, its session, flag and output being left as they were.
Continues(d, p, q) ==
    pc[d] = p /\ pc'[d] \notin {p, "h_enter"} =>
        /\ pc'[d] = q
        /\ client_sock'[d] = client_sock[d]
        /\ running'[d] = running[d]
        /\ sent'[d] = sent[d]

(* C17.  A polling error never ends the session or the daemon: whatever    *)
(* the poll does (without a GPS session it raises every time) the loop     *)
(* goes on to its test; with no fix it sends nothing, sleeps and, the      *)
(* flag being set, polls again, with the same client socket throughout.    *)
C17_PollingErrorIsNoFix ==
    /\ [](\A d \in Pids :
            gps_session[d] = None /\ pc[d] \in {"check", "sleep2"}
                => gps_data[d] = NoData)
    /\ [][\A d \in Pids :
            /\ Continues(d, "get_gps", "check")
            /\ gps_data[d] = NoData => Continues(d, "check", "sleep2")
            /\ Continues(d, "sleep2", "send_test")
            /\ running[d] => Continues(d, "send_test", "get_gps")]_vars

\* The GPS session could not be set up; a client is connected, a poll has
\* raised and the loop sleeps before it polls again.
C17_Witness ==
    \E d \in Pids :
        /\ gps_session[d] = None /\ pc[d] = "sleep2"
        /\ client_sock[d] = "open" /\ running[d] /\ sent[d] = <<>>

\* Daemon d takes a step of its main line from statement p.
Leaves(d, p) == pc[d] = p /\ pc'[d] \notin {p, "h_enter"}

(* C18.  Link configuration is not fatal: whatever make_discoverable,      *)
(* register_sdp_service and setup_gps do, each is followed by the next     *)
(* statement of run; once the server socket is open, run goes on to set    *)
(* the running flag and to enter the accept loop.                          *)
C18_LinkConfigurationNotFatal ==
    [][\A d \in Pids :
          /\ Leaves(d, "make_disc") => pc'[d] = "setup_bt"
          /\ Leaves(d, "setup_bt") /\ server_sock'[d] = "open"
                => pc'[d] = "register_sdp"
          /\ Leaves(d, "register_sdp")
                => pc'[d] = "setup_gps" /\ server_sock'[d] = server_sock[d]
          /\ Leaves(d, "setup_gps")
                => pc'[d] = "set_running" /\ server_sock'[d] = server_sock[d]
          /\ Leaves(d, "set_running")
                => pc'[d] = "loop_test" /\ running'[d]
          /\ Leaves(d, "loop_test") /\ running[d]
                => pc'[d] = "accept" /\ running'[d]]_vars

\* Neither piscan nor the SDP registration worked; the daemon is Running
\* and waits in accept on its open listening socket.
C18_Witness ==
    \E d \in Pids :
        /\ ~discoverable /\ ~sdp /\ ~Signalled(d)
        /\ pc[d] = "accept" /\ running[d] /\ server_sock[d] = "open"

(* C19.  An accept error does not end the daemon: a step out of accept     *)
(* that creates no session leaves the flag, the sockets and the session    *)
(* count as they were and goes to the delay of line 232, after which a     *)
(* Running daemon is at accept again.                                      *)
C19_AcceptErrorRetried ==
    [][\A d \in Pids :
          /\ Leaves(d, "accept") /\ sessions'[d] = sessions[d]
                => /\ pc'[d] = "sleep1"
                   /\ running'[d] = running[d]
                   /\ client_sock'[d] = client_sock[d]
                   /\ server_sock'[d] = server_sock[d]
                   /\ DaemonState(d)' = DaemonState(d)
          /\ Leaves(d, "sleep1") => pc'[d] = "loop_test" /\ UNCHANGED running
          /\ Leaves(d, "loop_test") /\ running[d]
                => pc'[d] = "accept" /\ UNCHANGED running]_vars

\* accept has failed on a Running daemon that no signal has reached and
\* that has no session; the daemon is in the delay before the retry.
C19_Witness ==
    \E d \in Pids :
        /\ pc[d] = "sleep1" /\ ~sendFailed[d] /\ ~Signalled(d)
        /\ DaemonState(d) = "Running" /\ server_sock[d] = "open"
        /\ client_sock[d] = None /\ sessions[d] = 0

(* C20.  The exists-then-remove pairs of stop (lines 279-280) and of       *)
(* cleanup (256-257) never fail on each other: whenever either is about    *)
(* to call os.remove, the PID file is still there.                         *)
C20_RemovalsNeverFail ==
    /\ \A d \in Pids : pc[d] = "c_remove" => Exists(pidFile)
    /\ stopPc = "remove" => Exists(pidFile)

====
